---- MODULE Spec2Model ----
(***************************************************************************)
(* gbk-to-sqlite: model of src/gbk_to_sqlite/core.py.                      *)
(*                                                                         *)
(* convert_gbk_to_sqlite is modelled statement by statement: the program   *)
(* counter pc names the statement about to run, the tables are sequences   *)
(* of rows in insertion (rowid) order, and the two buffers are the Python  *)
(* lists feature_tuples and qualifier_tuples.                              *)
(***************************************************************************)
EXTENDS Integers, Sequences, FiniteSets, TLC

\* ------------------------------------------------------------------ bounds
MaxRecords == 2      \* records in one input file
MaxFeatures == 3     \* features in one input file, all records together
MaxQualifiers == 3   \* qualifiers in one input file, all features together
MaxBatch == 3        \* batch_size ranges over 1..MaxBatch
MaxIndexCalls == 2   \* calls of create_indexes a caller makes around one conversion

\* ------------------------------------------------------- values and inputs
\* Python's None in an integer column (location_start, location_end).
Null == -1
\* Python's None in the location_strand column.
NoStrand == "None"

\* str(feature.location.strand): the raw strand value rendered as text.
Str(strand) == IF strand = "forward" THEN "+" ELSE "-"

\* A location object: which attributes it exposes (hasattr) and their values.
FullLocation(strand) ==
    [has_strand |-> TRUE, has_start |-> TRUE, has_end |-> TRUE,
     start |-> 10, end |-> 20, strand |-> strand]
PartialLocation(hs, he) ==
    [has_strand |-> FALSE, has_start |-> hs, has_end |-> he,
     start |-> 10, end |-> 20, strand |-> "forward"]
Locations ==
    {FullLocation(s) : s \in {"forward", "reverse", "None"}}
      \cup {PartialLocation(hs, he) : hs \in BOOLEAN, he \in BOOLEAN}

\* The j-th qualifier of a feature in a generated input.
QualAt(j) == [key |-> "gene", value |-> "v" \o ToString(j)]
QualPairs == {[key |-> "gene", value |-> "a"], [key |-> "note", value |-> "b"]}

Feature(loc, quals) == [location |-> loc, qualifiers |-> quals]
GbRecord(i, feats) ==
    [name |-> "rec" \o ToString(i), definition |-> "def" \o ToString(i),
     accession |-> "acc" \o ToString(i), version |-> "ver" \o ToString(i),
     features |-> feats]

\* All sequences of f qualifier counts whose sum is at most q.
RECURSIVE QualifierCounts(_, _)
QualifierCounts(f, q) ==
    IF f = 0 THEN {<< >>}
    ELSE UNION {{<<n>> \o s : s \in QualifierCounts(f - 1, q - n)} : n \in 0..q}

\* The features of a generated input: one per qualifier count.
FeaturesOf(counts) ==
    [k \in 1..Len(counts) |->
        Feature(FullLocation(IF k % 2 = 1 THEN "forward" ELSE "reverse"),
                [j \in 1..counts[k] |-> QualAt(j)])]

\* All ways to cut a feature sequence into r consecutive, possibly empty, runs.
RECURSIVE Splits(_, _)
Splits(r, fs) ==
    IF r = 0 THEN (IF fs = << >> THEN {<< >>} ELSE {})
    ELSE UNION {{<<SubSeq(fs, 1, k)>> \o rest :
                    rest \in Splits(r - 1, SubSeq(fs, k + 1, Len(fs)))} :
                k \in 0..Len(fs)}

\* Files that vary in shape: how many records, features and qualifiers.
ShapedInputs ==
    UNION {UNION {UNION {
        {[i \in 1..r |-> GbRecord(i, FeaturesOf(sp[i]))] : sp \in Splits(r, c)} :
            c \in QualifierCounts(f, MaxQualifiers)} :
            f \in 0..MaxFeatures} :
            r \in 0..MaxRecords}

\* Files that vary in content: one record whose first feature has any
\* location and up to two qualifiers drawn from QualPairs (repeats allowed),
\* followed by at most one plain feature.
QualSeqs ==
    {<< >>} \cup {<<a>> : a \in QualPairs}
            \cup {<<a, b>> : a \in QualPairs, b \in QualPairs}
ContentInputs ==
    {<<GbRecord(1, <<Feature(loc, qs)>> \o tail)>> :
        loc \in Locations, qs \in QualSeqs,
        tail \in {<< >>, <<Feature(FullLocation("forward"), <<QualAt(1)>>)>>}}

Inputs == ShapedInputs \cup ContentInputs
BatchSizes == 1..MaxBatch
Stems == {"genome.gbk"}
Paths == Stems \cup {p \o ".gz" : p \in Stems}

\* gbk_path.endswith(".gz")
EndsWithGz(path) == \E p \in Stems : path = p \o ".gz"

\* ------------------------------------------------------------------- state
VARIABLES
    gbk_path,          \* argument: the file to convert
    batch_size,        \* argument: the flush threshold
    input,             \* the records the file holds, in file order
    initial,           \* the database as the call found it
    genome_table,      \* table genome: rows in insertion order
    record_table,      \* table record
    feature_table,     \* table feature
    qualifier_table,   \* table qualifier
    genome,            \* local genome: the id of this run's Genome row, 0 before
    record_objs,       \* local record_objs
    feature_tuples,    \* local feature_tuples: the feature buffer
    qualifier_tuples,  \* local qualifier_tuples: the qualifier buffer
    nread,             \* records the reader has yielded so far
    idx,               \* enumerate index of the feature in hand
    qidx,              \* position of the qualifier in hand within its feature
    pc,                \* the statement about to run
    error,             \* the exception that ended the call, "" if none
    txlog,             \* every call of _bulk_insert_tuples that reached the database
    warned,            \* every warnings.warn issued
    run,               \* 1, or 2 once the same file is converted again
    first_batch_size,  \* the batch_size of the first conversion
    first_feature,     \* the feature table the first conversion ended with
    first_qualifier,   \* the qualifier table the first conversion ended with
    indexes,           \* the names of the indexes of the database, in creation order
    pragmas,           \* the pragma settings of the connection
    calls              \* what the caller has run around the conversion, in order

args == <<gbk_path, input, initial>>
tables == <<genome_table, record_table, feature_table, qualifier_table>>
locals == <<genome, record_objs, feature_tuples, qualifier_tuples, nread, idx, qidx>>
history == <<run, first_batch_size, first_feature, first_qualifier>>
session == <<indexes, pragmas, calls>>
vars == <<args, batch_size, tables, locals, pc, error, txlog, warned, history, session>>

\* -------------------------------------------------------- storage layer
\* Auto-incrementing identifier of the next row of a table.
AutoId(table) == Len(table) + 1

\* Genome.create(gbk_path=...): the row inserted.
GenomeCreate(table, path) == [id |-> AutoId(table), gbk_path |-> path]

\* Record.create(genome=..., name=..., ...): the row inserted.
RecordCreate(table, genome_id, record) ==
    [id |-> AutoId(table), genome |-> genome_id, name |-> record.name,
     definition |-> record.definition, accession |-> record.accession,
     version |-> record.version]

\* The table after a multi-row insert that failed: the storage layer rolls
\* the transaction back.
FailedInsert(values, table) == table

\* A database left by an earlier conversion of another file.
PriorDatabase ==
    [genome |-> <<[id |-> 1, gbk_path |-> "previous.gbk"]>>,
     record |-> <<[id |-> 1, genome |-> 1, name |-> "prev", definition |-> "prev",
                   accession |-> "prev", version |-> "prev"]>>,
     feature |-> << <<1, 1, 0, 10, 20, "+">> >>,
     qualifier |-> << <<1, 1, 0, "gene", "a">> >>]
EmptyDatabase ==
    [genome |-> << >>, record |-> << >>, feature |-> << >>, qualifier |-> << >>]
Databases == {EmptyDatabase, PriorDatabase}

\* The pragma settings of a connection nobody has tuned.
DefaultPragmas ==
    [synchronous |-> "FULL", journal_mode |-> "DELETE", temp_store |-> "DEFAULT",
     cache_size |-> -2000]

\* The columns of the record table.
RecordColumns == <<"id", "genome_id", "name", "definition", "accession", "version">>

\* CREATE INDEX IF NOT EXISTS: nothing happens when an index of that name
\* exists; otherwise every indexed column must be a column of the table.
ExecuteCreateIndex(existing, statement, columns) ==
    IF \E k \in 1..Len(existing) : existing[k] = statement.name
    THEN [indexes |-> existing, error |-> ""]
    ELSE IF \E k \in 1..Len(statement.columns) :
               \A c \in 1..Len(columns) : columns[c] # statement.columns[k]
         THEN [indexes |-> existing, error |-> "OperationalError"]
         ELSE [indexes |-> Append(existing, statement.name), error |-> ""]

\* -------------------------------------------------------------- core.py
\* Lines 47-55: the columns the two bulk inserts name.
feature_columns ==
    <<"genome_id", "record_id", "feature_index", "location_start", "location_end",
      "location_strand">>
qualifier_columns == <<"genome_id", "record_id", "feature_index", "key", "value">>

\* The columns of a table: its primary key and the columns written to it.
TableColumns(table_name) ==
    CASE table_name = "feature" -> <<"id">> \o feature_columns
      [] table_name = "qualifier" -> <<"id">> \o qualifier_columns
      [] table_name = "record" -> RecordColumns

\* Lines 146-151: the four statements of create_indexes.
IndexStatements ==
    <<[name |-> "idx_qualifier_feature", table |-> "qualifier", columns |-> <<"feature">>],
      [name |-> "idx_qualifier_feature_key", table |-> "qualifier",
       columns |-> <<"feature", "key">>],
      [name |-> "idx_feature_record", table |-> "feature", columns |-> <<"record">>],
      [name |-> "idx_record_genome", table |-> "record", columns |-> <<"genome">>]>>

\* The statements run one after the other; the first error ends the run.
RECURSIVE ExecuteAll(_, _)
ExecuteAll(existing, statements) ==
    IF statements = << >> THEN [indexes |-> existing, error |-> ""]
    ELSE LET r == ExecuteCreateIndex(existing, Head(statements),
                                     TableColumns(Head(statements).table))
         IN IF r.error # "" THEN r ELSE ExecuteAll(r.indexes, Tail(statements))

\* create_indexes(): the indexes afterwards and the error raised, if any;
\* "with db" rolls the statements back when one of them raises.
CreateIndexes(existing) ==
    LET r == ExecuteAll(existing, IndexStatements)
    IN IF r.error # "" THEN [indexes |-> existing, error |-> r.error] ELSE r

\* optimize_database(): the pragma settings afterwards.
OptimizeDatabase(settings) ==
    [settings EXCEPT !.synchronous = "OFF", !.journal_mode = "MEMORY",
                     !.temp_store = "MEMORY", !.cache_size = 100000]

\* BulkInsertTuples skipping the rows the table already holds.
BulkInsertTuplesIgnoringDuplicates(values, table) ==
    table \o SelectSeq(values, LAMBDA row : \A k \in 1..Len(table) : table[k] # row)
\* BulkInsertTuples replacing the content of the table by the batch.
BulkInsertTuplesReplacing(values, table) ==
    IF values = << >> THEN table ELSE values
\* BulkInsertTuples writing the batch last row first.
BulkInsertTuplesReversed(values, table) ==
    table \o [k \in 1..Len(values) |-> values[Len(values) + 1 - k]]
\* BulkInsertTuples losing the last row of the batch.
BulkInsertTuplesDropsLast(values, table) ==
    table \o SubSeq(values, 1, Len(values) - 1)
\* _bulk_insert_tuples(values, table_name, columns): the table afterwards.
BulkInsertTuples(values, table) ==
    IF values = << >> THEN table ELSE table \o values

\* The transaction a call of _bulk_insert_tuples opens, if any.
Transaction(values, table_name, at, ok) ==
    IF values = << >> THEN << >>
    ELSE <<[table |-> table_name, rows |-> Len(values), at |-> at, ok |-> ok]>>

\* iter_gb_records: the exceptions a next() on the generator can raise.
ReaderErrors(path) ==
    IF EndsWithGz(path) THEN {"IOError", "BadGzipFile", "ParseError"}
    ELSE {"IOError", "ParseError"}

\* LocationStart giving up on the start of a location without strand.
LocationStartSkipped(loc) ==
    IF ~loc.has_strand THEN Null ELSE loc.start
\* Lines 68-82: the three location columns of a feature.
LocationStart(loc) ==
    IF ~loc.has_strand THEN (IF loc.has_start THEN loc.start ELSE Null)
    ELSE loc.start
LocationEnd(loc) ==
    IF ~loc.has_strand THEN (IF loc.has_end THEN loc.end ELSE Null)
    ELSE loc.end
LocationStrand(loc) ==
    IF ~loc.has_strand THEN NoStrand
    ELSE IF loc.strand # "None" THEN Str(loc.strand) ELSE NoStrand

\* The record_obj and record of the loop body.
record == input[nread]
record_obj == record_objs[Len(record_objs)]

\* FeatureTuple with the genome id in the record_id column as well.
FeatureTupleGenomeTwice(genome_id, record_id, i, loc) ==
    <<genome_id, genome_id, i, LocationStart(loc), LocationEnd(loc), LocationStrand(loc)>>
\* FeatureTuple numbering the features of a record from one.
FeatureTupleOneBased(genome_id, record_id, i, loc) ==
    <<genome_id, record_id, i + 1, LocationStart(loc), LocationEnd(loc), LocationStrand(loc)>>
FeatureTuple(genome_id, record_id, i, loc) ==
    <<genome_id, record_id, i, LocationStart(loc), LocationEnd(loc), LocationStrand(loc)>>
\* QualifierTuple tagging the qualifier with a one-based feature index.
QualifierTupleOneBased(genome_id, record_id, i, q) ==
    <<genome_id, record_id, i + 1, q.key, q.value>>
\* QualifierTuple with the two foreign keys in each other's place.
QualifierTupleSwappedKeys(genome_id, record_id, i, q) ==
    <<record_id, genome_id, i, q.key, q.value>>
QualifierTuple(genome_id, record_id, i, q) ==
    <<genome_id, record_id, i, q.key, q.value>>

\* The state in which the statement at p is about to run for the first time.
Entry(p) ==
    /\ gbk_path \in Paths
    /\ batch_size \in BatchSizes
    /\ input \in Inputs
    /\ initial \in Databases
    /\ genome_table = initial.genome
    /\ record_table = initial.record
    /\ feature_table = initial.feature
    /\ qualifier_table = initial.qualifier
    /\ genome = 0
    /\ record_objs = << >>
    /\ feature_tuples = << >>
    /\ qualifier_tuples = << >>
    /\ nread = 0
    /\ idx = 0
    /\ qidx = 0
    /\ pc = p
    /\ error = ""
    /\ txlog = << >>
    /\ warned = << >>
    /\ run = 1
    /\ first_batch_size = 0
    /\ first_feature = << >>
    /\ first_qualifier = << >>
    /\ indexes = << >>
    /\ pragmas = DefaultPragmas
    /\ calls = << >>

Init == Entry("start")

\* Line 43: genome = Genome.create(gbk_path=gbk_path)
CreateGenome ==
    /\ pc = "start"
    /\ genome_table' = Append(genome_table, GenomeCreate(genome_table, gbk_path))
    /\ genome' = AutoId(genome_table)
    /\ pc' = "read"
    /\ UNCHANGED <<args, batch_size, record_table, feature_table, qualifier_table,
                   record_objs, feature_tuples, qualifier_tuples, nread, idx, qidx,
                   error, txlog, warned, history, session>>

\* The feature of the loop body (enumerate index idx, zero-based).
feature == record.features[idx + 1]

\* ReachedBatchSize flushing only once the buffer has grown past batch_size.
ExceededBatchSize(buffer, size) == Len(buffer) > size
\* ReachedBatchSize letting the buffer grow to twice batch_size.
ReachedTwiceBatchSize(buffer, size) == Len(buffer) >= 2 * size
\* len(buffer) >= batch_size
ReachedBatchSize(buffer, size) == Len(buffer) >= size

\* NextFeaturePc leaving the feature loop after the first feature.
NextFeaturePcBreaking(i) == "read"
\* Where control goes once the work on a feature is over: the next feature
\* of the record, or the next record.
NextFeaturePc(i) == IF i + 1 < Len(record.features) THEN "feature" ELSE "read"

\* ReadRecord keeping the new Record row in record_objs only, for a later
\* bulk insert.
ReadRecordDeferred ==
    /\ pc = "read"
    /\ nread < Len(input)
    /\ LET r == input[nread + 1]
           row == RecordCreate(record_table \o record_objs, genome, r)
       IN /\ record_objs' = Append(record_objs, row)
          /\ pc' = IF r.features = << >> THEN "read" ELSE "feature"
    /\ nread' = nread + 1
    /\ idx' = 0
    /\ qidx' = 0
    /\ UNCHANGED <<args, batch_size, tables, genome, feature_tuples, qualifier_tuples,
                   error, txlog, warned, history, session>>

\* Lines 57-65: the reader yields the next record and its Record row is inserted.
ReadRecord ==
    /\ pc = "read"
    /\ nread < Len(input)
    /\ LET r == input[nread + 1]
           row == RecordCreate(record_table, genome, r)
       IN /\ record_table' = Append(record_table, row)
          /\ record_objs' = Append(record_objs, row)
          /\ pc' = IF r.features = << >> THEN "read" ELSE "feature"
    /\ nread' = nread + 1
    /\ idx' = 0
    /\ qidx' = 0
    /\ UNCHANGED <<args, batch_size, genome_table, feature_table, qualifier_table,
                   genome, feature_tuples, qualifier_tuples, error, txlog, warned,
                   history, session>>

\* Line 57: the reader is exhausted and the loop ends.
EndOfInput ==
    /\ pc = "read"
    /\ nread = Len(input)
    /\ pc' = "final_features"
    /\ UNCHANGED <<args, batch_size, tables, locals, error, txlog, warned, history, session>>

\* ReaderFails with the whole conversion in one transaction that the error
\* rolls back.
ReaderFailsRollingBack ==
    /\ pc = "read"
    /\ \E e \in ReaderErrors(gbk_path) : error' = e
    /\ pc' = "aborted"
    /\ genome_table' = initial.genome
    /\ record_table' = initial.record
    /\ feature_table' = initial.feature
    /\ qualifier_table' = initial.qualifier
    /\ UNCHANGED <<args, batch_size, locals, txlog, warned, history, session>>

\* ReaderFails with the end-of-input flushes in a finally clause.
ReaderFailsFlushing ==
    /\ pc = "read"
    /\ \E e \in ReaderErrors(gbk_path) : error' = e
    /\ pc' = "aborted"
    /\ feature_table' = BulkInsertTuples(feature_tuples, feature_table)
    /\ qualifier_table' = BulkInsertTuples(qualifier_tuples, qualifier_table)
    /\ txlog' = txlog \o Transaction(feature_tuples, "feature", "final", TRUE)
                      \o Transaction(qualifier_tuples, "qualifier", "final", TRUE)
    /\ UNCHANGED <<args, batch_size, genome_table, record_table, locals, warned, history, session>>

\* Line 57: the reader raises (the file cannot be opened, read, decompressed or
\* parsed); nothing catches it.
ReaderFails ==
    /\ pc = "read"
    /\ \E e \in ReaderErrors(gbk_path) : error' = e
    /\ pc' = "aborted"
    /\ UNCHANGED <<args, batch_size, tables, locals, txlog, warned, history, session>>

\* Lines 66-93: the location columns are worked out, a feature without a
\* strand attribute is warned about, and the feature tuple is appended.
AppendFeature ==
    /\ pc = "feature"
    /\ warned' = IF ~feature.location.has_strand
                 THEN Append(warned, <<idx, record_obj.name>>) ELSE warned
    /\ feature_tuples' =
          Append(feature_tuples, FeatureTuple(genome, record_obj.id, idx, feature.location))
    /\ pc' = "check_features"
    /\ UNCHANGED <<args, batch_size, tables, genome, record_objs, qualifier_tuples,
                   nread, idx, qidx, error, txlog, history, session>>

\* CheckFeatures flushing the qualifier buffer along with the feature buffer.
CheckFeaturesFlushingBoth ==
    /\ pc = "check_features"
    /\ IF ReachedBatchSize(feature_tuples, batch_size)
       THEN /\ feature_table' = BulkInsertTuples(feature_tuples, feature_table)
            /\ qualifier_table' = BulkInsertTuples(qualifier_tuples, qualifier_table)
            /\ txlog' = txlog \o Transaction(feature_tuples, "feature", "threshold", TRUE)
                              \o Transaction(qualifier_tuples, "qualifier", "threshold", TRUE)
            /\ feature_tuples' = << >>
            /\ qualifier_tuples' = << >>
       ELSE UNCHANGED <<feature_table, qualifier_table, txlog, feature_tuples,
                        qualifier_tuples>>
    /\ IF feature.qualifiers # << >>
       THEN pc' = "qualifier" /\ idx' = idx
       ELSE pc' = NextFeaturePc(idx) /\ idx' = idx + 1
    /\ qidx' = 0
    /\ UNCHANGED <<args, batch_size, genome_table, record_table,
                   genome, record_objs, nread, error, warned, history, session>>

\* Lines 96-98: the feature buffer is inserted and replaced by an empty list
\* once it has reached batch_size; then the qualifier loop starts.
CheckFeatures ==
    /\ pc = "check_features"
    /\ IF ReachedBatchSize(feature_tuples, batch_size)
       THEN /\ feature_table' = BulkInsertTuples(feature_tuples, feature_table)
            /\ txlog' = txlog \o Transaction(feature_tuples, "feature", "threshold", TRUE)
            /\ feature_tuples' = << >>
       ELSE UNCHANGED <<feature_table, txlog, feature_tuples>>
    /\ IF feature.qualifiers # << >>
       THEN pc' = "qualifier" /\ idx' = idx
       ELSE pc' = NextFeaturePc(idx) /\ idx' = idx + 1
    /\ qidx' = 0
    /\ UNCHANGED <<args, batch_size, genome_table, record_table, qualifier_table,
                   genome, record_objs, qualifier_tuples, nread, error, warned, history, session>>

\* Lines 99-108: the qualifier tuple is appended.
AppendQualifier ==
    /\ pc = "qualifier"
    /\ qualifier_tuples' =
          Append(qualifier_tuples,
                 QualifierTuple(genome, record_obj.id, idx, feature.qualifiers[qidx + 1]))
    /\ pc' = "check_qualifiers"
    /\ UNCHANGED <<args, batch_size, tables, genome, record_objs, feature_tuples,
                   nread, idx, qidx, error, txlog, warned, history, session>>

\* CheckQualifiers without the reassignment of the list after the insert.
CheckQualifiersKeepingBuffer ==
    /\ pc = "check_qualifiers"
    /\ IF ReachedBatchSize(qualifier_tuples, batch_size)
       THEN /\ qualifier_table' = BulkInsertTuples(qualifier_tuples, qualifier_table)
            /\ txlog' = txlog \o Transaction(qualifier_tuples, "qualifier", "threshold", TRUE)
       ELSE UNCHANGED <<qualifier_table, txlog>>
    /\ IF qidx + 1 < Len(feature.qualifiers)
       THEN pc' = "qualifier" /\ qidx' = qidx + 1 /\ idx' = idx
       ELSE pc' = NextFeaturePc(idx) /\ qidx' = qidx + 1 /\ idx' = idx + 1
    /\ UNCHANGED <<args, batch_size, genome_table, record_table, feature_table,
                   genome, record_objs, feature_tuples, qualifier_tuples, nread, error,
                   warned, history, session>>

\* Lines 111-113: the qualifier buffer is inserted and replaced by an empty
\* list once it has reached batch_size; then the loops advance.
CheckQualifiers ==
    /\ pc = "check_qualifiers"
    /\ IF ReachedBatchSize(qualifier_tuples, batch_size)
       THEN /\ qualifier_table' = BulkInsertTuples(qualifier_tuples, qualifier_table)
            /\ txlog' = txlog \o Transaction(qualifier_tuples, "qualifier", "threshold", TRUE)
            /\ qualifier_tuples' = << >>
       ELSE UNCHANGED <<qualifier_table, txlog, qualifier_tuples>>
    /\ IF qidx + 1 < Len(feature.qualifiers)
       THEN pc' = "qualifier" /\ qidx' = qidx + 1 /\ idx' = idx
       ELSE pc' = NextFeaturePc(idx) /\ qidx' = qidx + 1 /\ idx' = idx + 1
    /\ UNCHANGED <<args, batch_size, genome_table, record_table, feature_table,
                   genome, record_objs, feature_tuples, nread, error, warned, history, session>>

\* Lines 116-117: what is left in the feature buffer is inserted; the list
\* itself is not reassigned.
FinalFeatures ==
    /\ pc = "final_features"
    /\ IF feature_tuples # << >>
       THEN /\ feature_table' = BulkInsertTuples(feature_tuples, feature_table)
            /\ txlog' = txlog \o Transaction(feature_tuples, "feature", "final", TRUE)
       ELSE UNCHANGED <<feature_table, txlog>>
    /\ pc' = "final_qualifiers"
    /\ UNCHANGED <<args, batch_size, genome_table, record_table, qualifier_table,
                   locals, error, warned, history, session>>

\* FinalQualifiers applying the threshold test of the loop to the last batch.
FinalQualifiersAtThreshold ==
    /\ pc = "final_qualifiers"
    /\ IF ReachedBatchSize(qualifier_tuples, batch_size)
       THEN /\ qualifier_table' = BulkInsertTuples(qualifier_tuples, qualifier_table)
            /\ txlog' = txlog \o Transaction(qualifier_tuples, "qualifier", "final", TRUE)
       ELSE UNCHANGED <<qualifier_table, txlog>>
    /\ pc' = "done"
    /\ UNCHANGED <<args, batch_size, genome_table, record_table, feature_table,
                   locals, error, warned, history, session>>

\* Lines 119-120: what is left in the qualifier buffer is inserted, and the
\* call returns.
FinalQualifiers ==
    /\ pc = "final_qualifiers"
    /\ IF qualifier_tuples # << >>
       THEN /\ qualifier_table' = BulkInsertTuples(qualifier_tuples, qualifier_table)
            /\ txlog' = txlog \o Transaction(qualifier_tuples, "qualifier", "final", TRUE)
       ELSE UNCHANGED <<qualifier_table, txlog>>
    /\ pc' = "done"
    /\ UNCHANGED <<args, batch_size, genome_table, record_table, feature_table,
                   locals, error, warned, history, session>>

\* The batch a statement is about to hand to _bulk_insert_tuples, or << >>.
PendingBatch ==
    CASE pc = "check_features" ->
            IF ReachedBatchSize(feature_tuples, batch_size) THEN feature_tuples ELSE << >>
      [] pc = "check_qualifiers" ->
            IF ReachedBatchSize(qualifier_tuples, batch_size) THEN qualifier_tuples ELSE << >>
      [] pc = "final_features" -> feature_tuples
      [] pc = "final_qualifiers" -> qualifier_tuples
      [] OTHER -> << >>
PendingTable == IF pc \in {"check_features", "final_features"} THEN "feature" ELSE "qualifier"
PendingAt == IF pc \in {"check_features", "check_qualifiers"} THEN "threshold" ELSE "final"

\* Lines 139-140 raise: the insert fails, the exception leaves
\* _bulk_insert_tuples and convert_gbk_to_sqlite, and the buffer is not reassigned.
InsertFails ==
    /\ PendingBatch # << >>
    /\ feature_table' =
          IF PendingTable = "feature" THEN FailedInsert(PendingBatch, feature_table)
          ELSE feature_table
    /\ qualifier_table' =
          IF PendingTable = "qualifier" THEN FailedInsert(PendingBatch, qualifier_table)
          ELSE qualifier_table
    /\ txlog' = txlog \o Transaction(PendingBatch, PendingTable, PendingAt, FALSE)
    /\ error' = "DatabaseError"
    /\ pc' = "aborted"
    /\ UNCHANGED <<args, batch_size, genome_table, record_table, locals, warned, history, session>>

Next ==
    \/ CreateGenome
    \/ ReadRecord
    \/ EndOfInput
    \/ ReaderFails
    \/ AppendFeature
    \/ CheckFeatures
    \/ AppendQualifier
    \/ CheckQualifiers
    \/ FinalFeatures
    \/ FinalQualifiers
    \/ InsertFails

Spec == Init /\ [][Next]_vars

\* The same file is converted a second time, with any batch size, into a
\* database restored to what it held before the first conversion.
Rerun ==
    /\ pc = "done"
    /\ run = 1
    /\ run' = 2
    /\ first_batch_size' = batch_size
    /\ first_feature' = feature_table
    /\ first_qualifier' = qualifier_table
    /\ batch_size' \in BatchSizes
    /\ genome_table' = initial.genome
    /\ record_table' = initial.record
    /\ feature_table' = initial.feature
    /\ qualifier_table' = initial.qualifier
    /\ genome' = 0
    /\ record_objs' = << >>
    /\ feature_tuples' = << >>
    /\ qualifier_tuples' = << >>
    /\ nread' = 0
    /\ idx' = 0
    /\ qidx' = 0
    /\ pc' = "start"
    /\ error' = ""
    /\ txlog' = << >>
    /\ warned' = << >>
    /\ UNCHANGED <<args, session>>

NextTwice == Next \/ Rerun
\* Two conversions of one plain-text file.
InitTwice == Init /\ ~EndsWithGz(gbk_path)
SpecTwice == InitTwice /\ [][NextTwice]_vars

\* What a call the caller makes leaves in the log.
Call(op, err, after) == [op |-> op, error |-> err, indexes |-> after]

\* A caller runs create_indexes() while no conversion is under way, and
\* handles what it raises.
CallCreateIndexes ==
    /\ pc \in {"start", "done", "aborted"}
    /\ Len(calls) < MaxIndexCalls
    /\ LET r == CreateIndexes(indexes)
       IN /\ indexes' = r.indexes
          /\ calls' = Append(calls, Call("create_indexes", r.error, r.indexes))
    /\ UNCHANGED <<args, batch_size, tables, locals, pc, error, txlog, warned,
                   history, pragmas>>

NextIndexes == Next \/ CallCreateIndexes
SpecIndexes == Init /\ [][NextIndexes]_vars

\* The program around the conversion: the pragmas first.
MainOptimize ==
    /\ pc = "main"
    /\ pragmas' = OptimizeDatabase(pragmas)
    /\ calls' = Append(calls, Call("optimize_database", "", indexes))
    /\ pc' = "start"
    /\ UNCHANGED <<args, batch_size, tables, locals, error, txlog, warned, history,
                   indexes>>

\* The program around the conversion: the indexes once the conversion has
\* returned; an error of create_indexes ends the program.
MainCreateIndexes ==
    /\ pc = "done"
    /\ LET r == CreateIndexes(indexes)
       IN /\ indexes' = r.indexes
          /\ calls' = Append(calls, Call("create_indexes", r.error, r.indexes))
          /\ error' = r.error
          /\ pc' = IF r.error = "" THEN "finished" ELSE "aborted"
    /\ UNCHANGED <<args, batch_size, tables, locals, txlog, warned, history, pragmas>>

InitMain == Entry("main")
NextMain == Next \/ MainOptimize \/ MainCreateIndexes
SpecMain == InitMain /\ [][NextMain]_vars

\* ------------------------------------------------------ reading the state
Range(seq) == {seq[k] : k \in 1..Len(seq)}

\* The rows this call has committed to a table: those after the rows the
\* call found there.
Committed(table, found) == SubSeq(table, Len(found) + 1, Len(table))
CommittedGenomes == Committed(genome_table, initial.genome)
CommittedRecords == Committed(record_table, initial.record)
CommittedFeatures == Committed(feature_table, initial.feature)
CommittedQualifiers == Committed(qualifier_table, initial.qualifier)

\* (genome_id, record_id, feature_index) of a feature or qualifier row.
Triple(row) == <<row[1], row[2], row[3]>>

RECURSIVE Concat(_)
Concat(seqs) == IF seqs = << >> THEN << >> ELSE Head(seqs) \o Concat(Tail(seqs))

RECURSIVE Sum(_)
Sum(ns) == IF ns = << >> THEN 0 ELSE Head(ns) + Sum(Tail(ns))

\* The transactions on one table, and those among them that committed.
TransactionsOn(table_name) == SelectSeq(txlog, LAMBDA t : t.table = table_name)
CommitsOn(table_name) == SelectSeq(TransactionsOn(table_name), LAMBDA t : t.ok)
FinalCommitsOn(table_name) == SelectSeq(CommitsOn(table_name), LAMBDA t : t.at = "final")
RowsCommittedOn(table_name) ==
    Sum([k \in 1..Len(CommitsOn(table_name)) |-> CommitsOn(table_name)[k].rows])

\* The buffered tuples not yet committed: the end-of-input flush leaves its
\* batch in the list.
UnflushedFeatures ==
    IF FinalCommitsOn("feature") # << >> THEN << >> ELSE feature_tuples
UnflushedQualifiers ==
    IF FinalCommitsOn("qualifier") # << >> THEN << >> ELSE qualifier_tuples

\* The tuples that flattening the first n records of the file emits, in order.
FeaturesEmitted(n) ==
    Concat([k \in 1..n |->
        [i \in 1..Len(input[k].features) |->
            FeatureTuple(genome, record_objs[k].id, i - 1, input[k].features[i].location)]])
QualifiersEmitted(n) ==
    Concat([k \in 1..n |-> Concat(
        [i \in 1..Len(input[k].features) |->
            [j \in 1..Len(input[k].features[i].qualifiers) |->
                QualifierTuple(genome, record_objs[k].id, i - 1,
                               input[k].features[i].qualifiers[j])]])])

\* ------------------------------------------------------------------ claims

\* C1: once convert_gbk_to_sqlite has returned without error, every row of
\* the qualifier table has the (genome_id, record_id, feature_index) triple
\* of some row of the feature table.
C1_QualifiersHaveFeature ==
    pc = "done" =>
        \A q \in Range(qualifier_table) :
            \E f \in Range(feature_table) : Triple(q) = Triple(f)

\* C1 witness: a finished run that committed qualifiers of two features, one
\* batch of them at the threshold.
C1_Witness ==
    /\ pc = "done"
    /\ Cardinality({Triple(q) : q \in Range(CommittedQualifiers)}) >= 2
    /\ \E k \in 1..Len(txlog) : txlog[k].table = "qualifier" /\ txlog[k].at = "threshold"

\* C2: in every state of a run, aborted ones included, every committed
\* feature or qualifier row and every buffered tuple carries the
\* (genome_id, record_id) of a Record row this run has already inserted.
C2_RowsHaveRecord ==
    \A row \in Range(CommittedFeatures) \cup Range(CommittedQualifiers)
                \cup Range(feature_tuples) \cup Range(qualifier_tuples) :
        \E r \in Range(CommittedRecords) :
            /\ r \in Range(record_objs)
            /\ r.genome = row[1]
            /\ r.id = row[2]

\* C2 witness: a run aborted while rows of its second record are committed
\* and others are still buffered, in a database that held rows before.
C2_Witness ==
    /\ pc = "aborted"
    /\ initial = PriorDatabase
    /\ Len(record_objs) = 2
    /\ \E row \in Range(CommittedQualifiers) : row[2] = record_objs[2].id
    /\ feature_tuples # << >>
    /\ qualifier_tuples # << >>

\* C3: batching is transparent to the output: converting the same records
\* with any two batch sizes ends with the same feature table and the same
\* qualifier table, row for row and in the same order.
C3_BatchingTransparent ==
    (run = 2 /\ pc = "done") =>
        /\ feature_table = first_feature
        /\ qualifier_table = first_qualifier

\* C3 witness: a file of three features and two qualifiers converted with
\* batch_size 1 and then with the largest batch size.
C3_Witness ==
    /\ run = 2
    /\ pc = "done"
    /\ first_batch_size = 1
    /\ batch_size = MaxBatch
    /\ Len(CommittedFeatures) >= 3
    /\ Len(CommittedQualifiers) >= 2

\* The feature_index column of the rows written for one record.
IndexesOf(record_id, rows) ==
    LET mine == SelectSeq(rows, LAMBDA row : row[2] = record_id)
    IN [k \in 1..Len(mine) |-> mine[k][3]]

\* C4: the feature rows of a record, committed ones followed by those still
\* buffered, are numbered 0, 1, 2, ... in file order with no gap and no
\* repeat, and after a successful conversion each record has as many
\* feature rows in the table as it has features.
C4_FeatureIndexes ==
    \A k \in 1..Len(record_objs) :
        LET written == IndexesOf(record_objs[k].id, feature_table \o UnflushedFeatures)
            stored == IndexesOf(record_objs[k].id, feature_table)
        IN /\ written = [n \in 1..Len(written) |-> n - 1]
           /\ pc = "done" => stored = [n \in 1..Len(input[k].features) |-> n - 1]

\* C4 witness: a finished run over two records, the second with two
\* features, whose feature rows went in through a threshold flush.
C4_Witness ==
    /\ pc = "done"
    /\ Len(input) = 2
    /\ Len(input[2].features) = 2
    /\ \E k \in 1..Len(txlog) : txlog[k].table = "feature" /\ txlog[k].at = "threshold"

\* C5: the Record rows inserted by a conversion are those of the records the
\* reader has yielded so far, one each, in order; a record's row is in the
\* table before any tuple of the record is buffered; and a successful
\* conversion ends with one Record row per record of the file.
C5_RecordRows ==
    /\ Len(CommittedRecords) = nread
    /\ CommittedRecords = record_objs
    /\ \A k \in 1..Len(CommittedRecords) :
          /\ CommittedRecords[k].genome = genome
          /\ CommittedRecords[k].name = input[k].name
    /\ \A row \in Range(feature_tuples) \cup Range(qualifier_tuples) :
          \E r \in Range(CommittedRecords) : r.id = row[2]
    /\ pc = "done" => Len(CommittedRecords) = Len(input)

\* C5 witness: the first of two records has been read and its first feature
\* has just been buffered.
C5_Witness ==
    /\ pc = "check_features"
    /\ Len(input) = 2
    /\ nread = 1
    /\ Len(CommittedRecords) = 1
    /\ Len(feature_tuples) = 1

\* C6: at the end of input each non-empty buffer is flushed exactly once,
\* whatever its size, and an empty buffer is not flushed; a conversion that
\* ends normally has every emitted feature and qualifier tuple in its table.
C6_EndOfInputFlush ==
    /\ \A t \in {"feature", "qualifier"} : Len(FinalCommitsOn(t)) <= 1
    /\ pc = "done" =>
          /\ Len(FinalCommitsOn("feature")) = (IF feature_tuples # << >> THEN 1 ELSE 0)
          /\ Len(FinalCommitsOn("qualifier")) = (IF qualifier_tuples # << >> THEN 1 ELSE 0)
          /\ \A t \in Range(FinalCommitsOn("feature")) : t.rows = Len(feature_tuples)
          /\ \A t \in Range(FinalCommitsOn("qualifier")) : t.rows = Len(qualifier_tuples)
          /\ CommittedFeatures = FeaturesEmitted(Len(input))
          /\ CommittedQualifiers = QualifiersEmitted(Len(input))

\* C6 witness: a finished run whose feature buffer was empty at the end of
\* input (its rows went in at the threshold) and whose qualifier buffer held
\* a single row, fewer than batch_size.
C6_Witness ==
    /\ pc = "done"
    /\ feature_tuples = << >>
    /\ CommittedFeatures # << >>
    /\ Len(qualifier_tuples) = 1
    /\ batch_size > 1

\* C7: neither buffer ever holds more than batch_size rows, and outside the
\* moment between an append and its length check each holds fewer than
\* batch_size rows (an insert that failed leaves its batch in the buffer).
C7_BoundedBuffers ==
    /\ Len(feature_tuples) <= batch_size
    /\ Len(qualifier_tuples) <= batch_size
    /\ (pc # "check_features" /\ error # "DatabaseError") =>
          Len(feature_tuples) < batch_size
    /\ (pc # "check_qualifiers" /\ error # "DatabaseError") =>
          Len(qualifier_tuples) < batch_size

\* C7 witness: the feature buffer has just reached a batch_size of two and
\* an earlier batch has already been flushed.
C7_Witness ==
    /\ pc = "check_features"
    /\ batch_size = 2
    /\ Len(feature_tuples) = batch_size
    /\ txlog # << >>

IOErrors == {"IOError", "BadGzipFile"}

\* C8 as stated: after an I/O failure no genome or record row of the file is
\* committed, and a failure before the first record leaves all four tables
\* without a row of the file.
C8_AsStated ==
    error \in IOErrors =>
        /\ pc = "aborted"
        /\ CommittedGenomes = << >>
        /\ CommittedRecords = << >>
        /\ nread = 0 => (CommittedFeatures = << >> /\ CommittedQualifiers = << >>)

\* C8 amended: an I/O failure aborts the call at once; the tables then hold
\* the Genome row created at the start of the call, the Record rows of the
\* records read before the failure and the feature and qualifier rows of
\* the batches flushed before it, and nothing else of the file; a failure
\* before the first record leaves the Genome row alone.
C8_IOFailure ==
    error \in IOErrors =>
        /\ pc = "aborted"
        /\ CommittedGenomes = <<[id |-> genome, gbk_path |-> gbk_path]>>
        /\ CommittedRecords = record_objs
        /\ Len(CommittedRecords) = nread
        /\ \A k \in 1..Len(txlog) : txlog[k].ok /\ txlog[k].at = "threshold"
        /\ Len(CommittedFeatures) = RowsCommittedOn("feature")
        /\ Len(CommittedQualifiers) = RowsCommittedOn("qualifier")
        /\ nread = 0 => /\ CommittedRecords = << >>
                        /\ CommittedFeatures = << >>
                        /\ CommittedQualifiers = << >>

\* C8 witness: a gzip file that fails to decompress after its first record,
\* with one feature batch flushed and a feature still buffered.
C8_Witness ==
    /\ error = "BadGzipFile"
    /\ nread = 1
    /\ Len(CommittedFeatures) = 2
    /\ Len(feature_tuples) = 1

\* C9: a parse error after k records leaves the call uncaught; no insert
\* follows it, the batches committed before it (each of batch_size rows, in
\* emission order) are still in the tables, and the tuples buffered at that
\* moment are not in the tables.
C9_ParseFailure ==
    error = "ParseError" =>
        /\ pc = "aborted"
        /\ \A k \in 1..Len(txlog) :
              txlog[k].ok /\ txlog[k].at = "threshold" /\ txlog[k].rows = batch_size
        /\ CommittedFeatures =
              SubSeq(FeaturesEmitted(nread), 1, RowsCommittedOn("feature"))
        /\ CommittedQualifiers =
              SubSeq(QualifiersEmitted(nread), 1, RowsCommittedOn("qualifier"))
        /\ CommittedFeatures \o feature_tuples = FeaturesEmitted(nread)
        /\ CommittedQualifiers \o qualifier_tuples = QualifiersEmitted(nread)

\* C9 witness: the parse error comes after the first record, with a
\* feature batch committed and tuples left in both buffers.
C9_Witness ==
    /\ error = "ParseError"
    /\ nread = 1
    /\ Len(input) = 2
    /\ CommittedFeatures # << >>
    /\ feature_tuples # << >>
    /\ qualifier_tuples # << >>

RowsOf(rows, triple) == SelectSeq(rows, LAMBDA row : Triple(row) = triple)

\* The features of the file whose location has no strand attribute, as
\* <<record number, feature number>>, both from one.
Strandless ==
    {ki \in UNION {{<<k, i>> : i \in 1..Len(input[k].features)} : k \in 1..Len(input)} :
        ~input[ki[1]].features[ki[2]].location.has_strand}

FeatureCount == Sum([k \in 1..Len(input) |-> Len(input[k].features)])
QualifierCount ==
    Sum([k \in 1..Len(input) |->
        Sum([i \in 1..Len(input[k].features) |-> Len(input[k].features[i].qualifiers)])])
EndReached == pc \in {"final_features", "final_qualifiers", "done"}
ThresholdCommitsOn(table_name) ==
    SelectSeq(CommitsOn(table_name), LAMBDA t : t.at = "threshold")

\* C12: when the end of input is reached, a file of at least batch_size
\* features has had a feature batch inserted mid-stream, and likewise for
\* qualifiers; two records, the first with three features that carry two
\* qualifiers, end at batch_size 2 with 1 genome, 2 record, 3 feature and 2
\* qualifier rows.
C12_MidStreamFlush ==
    /\ (EndReached /\ FeatureCount >= batch_size) => ThresholdCommitsOn("feature") # << >>
    /\ (EndReached /\ QualifierCount >= batch_size) => ThresholdCommitsOn("qualifier") # << >>
    /\ (pc = "done" /\ batch_size = 2 /\ Len(input) = 2
          /\ Len(input[1].features) = 3 /\ Len(input[2].features) = 0
          /\ QualifierCount = 2) =>
             /\ Len(CommittedGenomes) = 1
             /\ Len(CommittedRecords) = 2
             /\ Len(CommittedFeatures) = 3
             /\ Len(CommittedQualifiers) = 2

\* C12 witness: that file, converted at batch_size 2 and about to run the
\* end-of-input flushes.
C12_Witness ==
    /\ pc = "final_features"
    /\ batch_size = 2
    /\ Len(input) = 2
    /\ FeatureCount = 3
    /\ Len(input[1].features) = 3
    /\ Len(input[1].features[1].qualifiers) = 2
    /\ ThresholdCommitsOn("feature") # << >>

\* The names of the four indexes.
IndexNames == {IndexStatements[k].name : k \in 1..Len(IndexStatements)}
IndexCalls == SelectSeq(calls, LAMBDA c : c.op = "create_indexes")

\* C13: create_indexes can be run twice in a row: neither call raises, and
\* after each the database has the four named indexes, once each.
C13_IndexesIdempotent ==
    \A k \in 1..Len(IndexCalls) :
        /\ IndexCalls[k].error = ""
        /\ Range(IndexCalls[k].indexes) = IndexNames
        /\ Len(IndexCalls[k].indexes) = Cardinality(IndexNames)
        /\ k > 1 => IndexCalls[k].indexes = IndexCalls[k - 1].indexes

\* The conversion has returned: every record is read and every tuple is in
\* its table.
Loaded ==
    /\ nread = Len(input)
    /\ Len(record_objs) = Len(input)
    /\ CommittedFeatures = FeaturesEmitted(Len(input))
    /\ CommittedQualifiers = QualifiersEmitted(Len(input))

\* C14: the pragmas are applied once, before the conversion begins; the
\* indexes are created once, and only when all the data of the file is
\* loaded; a run whose conversion completed ends with the four indexes.
C14_PhaseOrder ==
    /\ pc # "main" =>
          /\ calls # << >>
          /\ calls[1].op = "optimize_database"
          /\ pragmas = OptimizeDatabase(DefaultPragmas)
    /\ \A k \in 2..Len(calls) : calls[k].op = "create_indexes"
    /\ Len(IndexCalls) <= 1
    /\ IndexCalls # << >> => Loaded
    /\ (IndexCalls # << >> \/ pc = "finished") =>
          /\ Range(indexes) = IndexNames
          /\ Len(indexes) = Cardinality(IndexNames)

\* C15: the two buffers are independent: the length check of one stream,
\* flushing or not, leaves the buffer and the table of the other stream as
\* they are, and every flush, the end-of-input ones included, adds the rows
\* of its own buffer to its own table.
C15_IndependentBuffers ==
    [][/\ pc \in {"check_features", "final_features"} =>
            /\ qualifier_tuples' = qualifier_tuples
            /\ qualifier_table' = qualifier_table
            /\ feature_table' \in {feature_table, feature_table \o feature_tuples}
       /\ pc \in {"check_qualifiers", "final_qualifiers"} =>
            /\ feature_tuples' = feature_tuples
            /\ feature_table' = feature_table
            /\ qualifier_table' \in {qualifier_table, qualifier_table \o qualifier_tuples}
      ]_vars

\* C15 witness: the feature buffer has just been flushed at the threshold
\* while the qualifier buffer holds a tuple.
C15_Witness ==
    /\ pc \in {"qualifier", "feature", "read"}
    /\ txlog # << >>
    /\ txlog[Len(txlog)] =
          [table |-> "feature", rows |-> batch_size, at |-> "threshold", ok |-> TRUE]
    /\ feature_tuples = << >>
    /\ qualifier_tuples # << >>
    /\ CommittedQualifiers = << >>

IsPrefix(a, b) == Len(a) <= Len(b) /\ SubSeq(b, 1, Len(a)) = a

\* The rows of a stream so far: committed ones, then buffered ones.
FeatureRows == CommittedFeatures \o UnflushedFeatures
QualifierRows == CommittedQualifiers \o UnflushedQualifiers

\* The qualifiers of the first n features of record number k.
QualifiersBefore(k, n) ==
    Sum([i \in 1..n |-> Len(input[k].features[i].qualifiers)])

Ceil(n, d) == (n + d - 1) \div d

\* C17: every transaction carries between 1 and batch_size rows, a
\* threshold flush exactly batch_size, an end-of-input flush fewer than
\* batch_size, and a stream of N tuples is written in ceil(N / batch_size)
\* transactions.
C17_TransactionSizes ==
    /\ \A k \in 1..Len(txlog) :
          /\ txlog[k].rows >= 1
          /\ txlog[k].rows <= batch_size
          /\ txlog[k].at = "threshold" => txlog[k].rows = batch_size
          /\ txlog[k].at = "final" => txlog[k].rows <= batch_size - 1
    /\ pc = "done" =>
          /\ Len(TransactionsOn("feature")) = Ceil(FeatureCount, batch_size)
          /\ Len(TransactionsOn("qualifier")) = Ceil(QualifierCount, batch_size)

\* C17 witness: three features and three qualifiers written at batch_size
\* 2: per stream one threshold flush of two rows and a final flush of one.
C17_Witness ==
    /\ pc = "done"
    /\ batch_size = 2
    /\ FeatureCount = 3
    /\ QualifierCount = 3
    /\ Len(txlog) = 4

\* C18: records are handled one at a time, in file order: the reader is
\* asked for the next record, and a Record row is inserted, only when every
\* tuple of the records read so far is committed or buffered and no buffer
\* is waiting for its threshold flush.
C18_OneRecordAtATime ==
    [][(nread' # nread \/ record_table' # record_table) =>
          /\ pc = "read"
          /\ nread' = nread + 1
          /\ record_table' = Append(record_table, record_objs'[nread'])
          /\ record_objs'[nread'].name = input[nread'].name
          /\ FeatureRows = FeaturesEmitted(nread)
          /\ QualifierRows = QualifiersEmitted(nread)
          /\ Len(feature_tuples) < batch_size
          /\ Len(qualifier_tuples) < batch_size
      ]_vars

\* C18 witness: the second record has been read after a first record of two
\* features, the second of them with qualifiers, and a threshold flush.
C18_Witness ==
    /\ nread = 2
    /\ pc = "feature"
    /\ Len(input[1].features) = 2
    /\ input[1].features[2].qualifiers # << >>
    /\ ThresholdCommitsOn("feature") # << >>

\* C19: the tables only grow: every step leaves each table as it is or adds
\* rows at its end; one Genome row is inserted per call, before any Record
\* row.
C19_AppendOnly ==
    /\ [][/\ IsPrefix(genome_table, genome_table')
          /\ IsPrefix(record_table, record_table')
          /\ IsPrefix(feature_table, feature_table')
          /\ IsPrefix(qualifier_table, qualifier_table')]_vars
    /\ [](/\ Len(CommittedGenomes) = (IF pc = "start" THEN 0 ELSE 1)
          /\ CommittedRecords # << >> => Len(CommittedGenomes) = 1)

\* C19 witness: a finished run that added rows in several transactions to a
\* database that held rows before.
C19_Witness ==
    /\ pc = "done"
    /\ initial = PriorDatabase
    /\ Len(txlog) >= 3
    /\ Len(CommittedRecords) = 2

\* C20: in every state, each qualifier row in the table has its feature
\* tuple either in the feature table or in the feature buffer.
C20_ParentAvailable ==
    \A q \in Range(qualifier_table) :
        \E f \in Range(feature_table) \cup Range(feature_tuples) : Triple(q) = Triple(f)

\* C20 witness: a qualifier row is committed while its feature tuple is
\* still in the buffer only.
C20_Witness ==
    \E q \in Range(CommittedQualifiers) :
        /\ \A f \in Range(feature_table) : Triple(q) # Triple(f)
        /\ \E f \in Range(feature_tuples) : Triple(q) = Triple(f)
====
